---------------------------- MODULE Spec2Model ----------------------------
(***************************************************************************)
(* Night Shift Agent (src/agent_gemini.py): the conversation loop          *)
(* (process_task / fix_ci_failure), the tools it dispatches to, the        *)
(* build-verification state they update, the retry wrapper around the      *)
(* remote completion call, and main: the task-processing loop over         *)
(* tasks.txt, the pull request and the CI monitor.                         *)
(*                                                                         *)
(* Specifications: Spec (one run of the conversation loop), SpecRetry      *)
(* (call_api_with_retry), SpecTruncate (the append of a tool result),      *)
(* SpecTasks / SpecTasksFair (phase 1 of main), SpecMonitor (phases 2, 3). *)
(*                                                                         *)
(* Texts are sequences of segments [src, lo, hi]: characters lo..hi of the *)
(* string named src.  Slicing and concatenation are computed on segments,  *)
(* so lengths and the kept parts of a slice are exact.                     *)
(***************************************************************************)
EXTENDS Integers, Sequences, FiniteSets, TLC

(***************************************************************************)
(* Program constants                                                       *)
(***************************************************************************)
MAX_RETRIES == 3

RETRY_BASE_DELAY == 2

LAST_ERROR_CHARS == 2000

TRUNCATE_LIMIT == 10000

TRUNCATE_KEEP == 5000

TRUNCATE_MARKER_LEN == 23

FAIL_PREFIX_LEN == 33

MAX_CI_FIX_ATTEMPTS == 5

(***************************************************************************)
(* Bounds of the model                                                     *)
(***************************************************************************)
\* MAX_ITERATIONS is configuration: the model draws it from 1..MaxIterationCeiling.
MaxIterationCeiling == 2

\* The remote requests at most this many tool calls in one run.
MaxToolCalls == 2

\* The remote's answers to successive invocations are scripted this far.
MaxScript == 6

\* Length given to the short formatted messages whose real length depends on
\* a path or on an exception's text.
ShortMessageLen == 40

\* Length of the file read by read_file and of the listing of list_files.
FileLen == 300

\* The task store holds at most this many lines (and the five-line example).
MaxLines == 3

\* A pull request has at most this many checks.
MaxChecks == 2

\* The CI monitor polls at most this many times.
MaxPolls == 6

\* tasks.txt is edited from outside at most this many times while one task runs.
MaxEdits == 1

\* The tool results truncated on their own are within this many characters
\* of the truncation limit (and one of 12000 characters).
MaxSlack == 40

(***************************************************************************)
(* Texts                                                                   *)
(***************************************************************************)
Lit(name, n) == IF n = 0 THEN << >> ELSE << [src |-> name, lo |-> 1, hi |-> n] >>

SegLen(s) == s.hi - s.lo + 1

RECURSIVE TextLen(_)
TextLen(t) == IF t = << >> THEN 0 ELSE SegLen(Head(t)) + TextLen(Tail(t))

\* t[:n]
RECURSIVE TakeFirst(_, _)
TakeFirst(t, n) ==
    IF n <= 0 \/ t = << >> THEN << >>
    ELSE LET s == Head(t) IN
         IF SegLen(s) <= n
         THEN << s >> \o TakeFirst(Tail(t), n - SegLen(s))
         ELSE << [s EXCEPT !.hi = s.lo + n - 1] >>

\* t[-n:] for n > 0
RECURSIVE TakeLast(_, _)
TakeLast(t, n) ==
    IF n <= 0 \/ t = << >> THEN << >>
    ELSE LET s == t[Len(t)] IN
         IF SegLen(s) <= n
         THEN TakeLast(SubSeq(t, 1, Len(t) - 1), n - SegLen(s)) \o << s >>
         ELSE << [s EXCEPT !.lo = s.hi - n + 1] >>

TruncatedMarker == Lit("\n\n... [truncated] ...\n\n", TRUNCATE_MARKER_LEN)

\* The truncation applied from the limit on (len >= 10000).
Truncate_from_limit(t) ==
    IF TextLen(t) >= TRUNCATE_LIMIT
    THEN TakeFirst(t, TRUNCATE_KEEP) \o TruncatedMarker \o TakeLast(t, TRUNCATE_KEEP)
    ELSE t

\* The truncation of a tool result in the conversation loop.
Truncate(t) ==
    IF TextLen(t) > TRUNCATE_LIMIT
    THEN TakeFirst(t, TRUNCATE_KEEP) \o TruncatedMarker \o TakeLast(t, TRUNCATE_KEEP)
    ELSE t

(***************************************************************************)
(* Commands and their classification by keyword                            *)
(***************************************************************************)
Commands == {"./gradlew build", "npm run TEST", "git status"}

CommandChars(c) ==
    CASE c = "./gradlew build" ->
           << ".", "/", "g", "r", "a", "d", "l", "e", "w", " ", "b", "u", "i", "l", "d" >>
      [] c = "npm run TEST" ->
           << "n", "p", "m", " ", "r", "u", "n", " ", "T", "E", "S", "T" >>
      [] c = "git status" ->
           << "g", "i", "t", " ", "s", "t", "a", "t", "u", "s" >>

LowerChar(ch) ==
    CASE ch = "T" -> "t"
      [] ch = "E" -> "e"
      [] ch = "S" -> "s"
      [] OTHER -> ch

Lower(s) == [i \in 1..Len(s) |-> LowerChar(s[i])]

\* kw in s
Contains(s, kw) ==
    \E i \in 1..(Len(s) - Len(kw) + 1) : SubSeq(s, i, i + Len(kw) - 1) = kw

BuildKeywords ==
    { << "g", "r", "a", "d", "l", "e", "w" >>,
      << "g", "r", "a", "d", "l", "e" >>,
      << "b", "u", "i", "l", "d" >>,
      << "c", "o", "m", "p", "i", "l", "e" >>,
      << "a", "s", "s", "e", "m", "b", "l", "e" >> }

TestKeywords ==
    { << "t", "e", "s", "t" >>,
      << "c", "h", "e", "c", "k" >>,
      << "v", "e", "r", "i", "f", "y" >> }

is_build_command(command) ==
    \E kw \in BuildKeywords : Contains(Lower(CommandChars(command)), kw)

is_test_command(command) ==
    \E kw \in TestKeywords : Contains(Lower(CommandChars(command)), kw)

(***************************************************************************)
(* BuildState                                                              *)
(***************************************************************************)
None == << [src |-> "None", lo |-> 0, hi |-> 0] >>

BuildStateInit ==
    [build_attempted |-> FALSE, build_passed |-> FALSE,
     test_attempted |-> FALSE, test_passed |-> FALSE, last_error |-> None]

\* reset() leaving the state as it finds it.
reset_keeps(bs) == bs

reset(bs) == BuildStateInit

REQUIRE_BUILD_VERIFICATION == TRUE

is_verified(bs) ==
    IF ~REQUIRE_BUILD_VERIFICATION THEN TRUE
    ELSE bs.build_attempted /\ bs.build_passed


(***************************************************************************)
(* Tools.  Each returns the BuildState it leaves and the text it returns.  *)
(* The environment's part (file I/O, the subprocess) is the argument env.  *)
(***************************************************************************)
read_file(bs, env) ==
    [bs |-> bs,
     ret |-> IF env = "ok" THEN Lit("file", FileLen)
             ELSE Lit("Error reading file {path}: {e}", ShortMessageLen)]

\* write_file as it would be without the reset after the write.
write_file_keeps_verification(bs, env) ==
    [bs |-> bs,
     ret |-> IF env = "ok" THEN Lit("Successfully wrote to {path}", ShortMessageLen)
             ELSE Lit("Error writing to file {path}: {e}", ShortMessageLen)]

\* write_file resetting build_passed alone.
write_file_resets_passed_only(bs, env) ==
    IF env = "ok"
    THEN [bs |-> [bs EXCEPT !.build_passed = FALSE],
          ret |-> Lit("Successfully wrote to {path}", ShortMessageLen)]
    ELSE [bs |-> bs,
          ret |-> Lit("Error writing to file {path}: {e}", ShortMessageLen)]

\* write_file resetting build_attempted alone.
write_file_resets_attempted_only(bs, env) ==
    IF env = "ok"
    THEN [bs |-> [bs EXCEPT !.build_attempted = FALSE],
          ret |-> Lit("Successfully wrote to {path}", ShortMessageLen)]
    ELSE [bs |-> bs,
          ret |-> Lit("Error writing to file {path}: {e}", ShortMessageLen)]

write_file(bs, env) ==
    IF env = "ok"
    THEN [bs |-> [bs EXCEPT !.build_passed = FALSE, !.build_attempted = FALSE],
          ret |-> Lit("Successfully wrote to {path}", ShortMessageLen)]
    ELSE [bs |-> bs,
          ret |-> Lit("Error writing to file {path}: {e}", ShortMessageLen)]

list_files(bs, env) ==
    [bs |-> bs, ret |-> Lit("listing", FileLen)]

\* What subprocess.run does: the command exits with a return code and a
\* combined output, or the 600-second timeout expires, or it cannot be run.
Procs ==
    { [kind |-> "exit", returncode |-> 0, len |-> 12000],
      [kind |-> "exit", returncode |-> 1, len |-> 1500],
      [kind |-> "exit", returncode |-> 1, len |-> 12000],
      [kind |-> "timeout", returncode |-> 0, len |-> 0],
      [kind |-> "exception", returncode |-> 0, len |-> 0] }

Output(proc) == Lit("stdout+stderr", proc.len)

\* run_shell's tracking keeping the head of the output (output[:2000]).
run_shell_track_head(bs, command, proc) ==
    IF is_build_command(command) \/ is_test_command(command)
    THEN LET attempted == [bs EXCEPT !.build_attempted = TRUE] IN
         IF proc.returncode = 0
         THEN IF is_test_command(command)
              THEN [attempted EXCEPT !.build_passed = TRUE,
                                     !.test_attempted = TRUE,
                                     !.test_passed = TRUE]
              ELSE [attempted EXCEPT !.build_passed = TRUE]
         ELSE [attempted EXCEPT !.build_passed = FALSE,
                                !.last_error = TakeFirst(Output(proc), LAST_ERROR_CHARS)]
    ELSE bs

run_shell_track(bs, command, proc) ==
    IF is_build_command(command) \/ is_test_command(command)
    THEN LET attempted == [bs EXCEPT !.build_attempted = TRUE] IN
         IF proc.returncode = 0
         THEN IF is_test_command(command)
              THEN [attempted EXCEPT !.build_passed = TRUE,
                                     !.test_attempted = TRUE,
                                     !.test_passed = TRUE]
              ELSE [attempted EXCEPT !.build_passed = TRUE]
         ELSE [attempted EXCEPT !.build_passed = FALSE,
                                !.last_error = TakeLast(Output(proc), LAST_ERROR_CHARS)]
    ELSE bs

run_shell(bs, command, proc) ==
    CASE proc.kind = "timeout" ->
           [bs |-> bs,
            ret |-> Lit("Error: Command timed out after 600 seconds", ShortMessageLen)]
      [] proc.kind = "exception" ->
           [bs |-> bs,
            ret |-> Lit("Error executing command: {e}", ShortMessageLen)]
      [] OTHER ->
           [bs |-> run_shell_track(bs, command, proc),
            ret |-> IF proc.returncode # 0
                    THEN Lit("Command failed with exit code 1:\n", FAIL_PREFIX_LEN)
                         \o Output(proc)
                    ELSE Output(proc)]

ToolNames == {"read_file", "write_file", "list_files", "run_shell"}

available_functions(name) == IF name \in ToolNames THEN name ELSE "None"

\* The outcomes the environment can give a tool call.
Envs(name) ==
    CASE name = "read_file"  -> {"ok", "error"}
      [] name = "write_file" -> {"ok", "error"}
      [] name = "list_files" -> {"ok"}
      [] name = "run_shell"  -> Procs
      [] OTHER -> {"ok"}

call_function(name, bs, call, env) ==
    CASE name = "read_file"  -> read_file(bs, env)
      [] name = "write_file" -> write_file(bs, env)
      [] name = "list_files" -> list_files(bs, env)
      [] name = "run_shell"  -> run_shell(bs, call.command, env)

(***************************************************************************)
(* Tool calls requested by the remote model.  arguments is "valid",        *)
(* "not_json" (json.loads raises JSONDecodeError) or "wrong_params" (valid *)
(* JSON that does not match the tool's parameters: the call raises         *)
(* TypeError).                                                             *)
(***************************************************************************)
ToolCallShapes ==
    [name : {"delete_file"}, arguments : {"valid", "not_json"}, command : {""}]
    \cup [name : {"read_file", "list_files"}, arguments : {"valid"}, command : {""}]
    \cup [name : {"write_file"}, arguments : {"valid", "not_json", "wrong_params"},
          command : {""}]
    \cup [name : {"run_shell"}, arguments : {"valid"}, command : Commands]

json_loads(arguments) == IF arguments = "not_json" THEN "JSONDecodeError" ELSE arguments

ToolMessage(call, content) ==
    [role |-> "tool", tool_call_id |-> call.id, name |-> call.name,
     wording |-> "", content |-> content, tool_calls |-> << >>]

PlainMessage(role, wording) ==
    [role |-> role, tool_call_id |-> 0, name |-> "",
     wording |-> wording, content |-> << >>, tool_calls |-> << >>]

AssistantMessage(calls) ==
    [role |-> "assistant", tool_call_id |-> 0, name |-> "",
     wording |-> "", content |-> << >>, tool_calls |-> calls]

\* One pass of the body of "for tool_call in tool_calls" in process_task:
\* the BuildState left, the messages appended, and whether an exception
\* leaves the function.
process_task_tool_call(bs, call, env) ==
    IF available_functions(call.name) = "None"
    THEN [bs |-> bs, appended |-> << >>, raised |-> FALSE]
    ELSE IF json_loads(call.arguments) = "JSONDecodeError"
    THEN [bs |-> bs, raised |-> FALSE,
          appended |-> << ToolMessage(call,
                            Lit("Error: Invalid JSON arguments: {e}", ShortMessageLen)) >>]
    ELSE IF call.arguments = "wrong_params"
    THEN [bs |-> bs, appended |-> << >>, raised |-> TRUE]
    ELSE LET r == call_function(call.name, bs, call, env) IN
         [bs |-> r.bs, raised |-> FALSE,
          appended |-> << ToolMessage(call, Truncate(r.ret)) >>]

\* The same pass in fix_ci_failure: one try block around parsing, the call
\* and the append.
fix_ci_failure_tool_call(bs, call, env) ==
    IF available_functions(call.name) = "None"
    THEN [bs |-> bs, appended |-> << >>, raised |-> FALSE]
    ELSE IF json_loads(call.arguments) = "JSONDecodeError"
            \/ call.arguments = "wrong_params"
    THEN [bs |-> bs, raised |-> FALSE,
          appended |-> << ToolMessage(call, Lit("Error: {e}", ShortMessageLen)) >>]
    ELSE LET r == call_function(call.name, bs, call, env) IN
         [bs |-> r.bs, raised |-> FALSE,
          appended |-> << ToolMessage(call, Truncate(r.ret)) >>]

(***************************************************************************)
(* call_api_with_retry                                                     *)
(*                                                                         *)
(* The state of one call is [attempt, trace, status]: the loop variable,   *)
(* the remote invocations and sleeps made so far, in order, and "running", *)
(* "returned" or "raised".                                                 *)
(***************************************************************************)
Invoke(outcome) == [op |-> "create", outcome |-> outcome, seconds |-> 0]

Sleep(seconds) == [op |-> "sleep", outcome |-> "", seconds |-> seconds]

RECURSIVE Pow2(_)
Pow2(n) == IF n = 0 THEN 1 ELSE 2 * Pow2(n - 1)

\* The backoff with a one-indexed attempt.
delay_one_indexed(attempt) == RETRY_BASE_DELAY * Pow2(attempt + 1)

delay(attempt) == RETRY_BASE_DELAY * Pow2(attempt)

retry_again(a) == a < MAX_RETRIES - 1

ApiStart == [attempt |-> 0, trace |-> << >>, status |-> "running"]

\* One pass of "for attempt in range(MAX_RETRIES)": the remote is invoked and
\* answers (outcome "ok") or fails (outcome "error").
api_attempt(st, outcome) ==
    IF outcome = "ok"
    THEN [st EXCEPT !.trace = Append(st.trace, Invoke("ok")), !.status = "returned"]
    ELSE IF retry_again(st.attempt)
    THEN [st EXCEPT !.trace = st.trace \o << Invoke("error"), Sleep(delay(st.attempt)) >>,
                    !.attempt = st.attempt + 1]
    ELSE [st EXCEPT !.trace = Append(st.trace, Invoke("error")), !.status = "raised"]

\* The whole call, the remote's answers being script[1], script[2], ...
RECURSIVE api_run(_, _)
api_run(st, script) ==
    IF st.status # "running" \/ script = << >> THEN st
    ELSE api_run(api_attempt(st, Head(script)), Tail(script))

Scripts == [1..MaxScript -> {"ok", "error"}]

call_api_with_retry(script) == api_run(ApiStart, script)

\* What the call can do to its caller: "returned" or "raised".
ApiOutcomes == { call_api_with_retry(sc).status : sc \in Scripts }

(***************************************************************************)
(* main: the task store.  A line is a sequence of characters; tasks.txt    *)
(* is the sequence of lines that readlines() returns.                      *)
(***************************************************************************)
IsSpace(ch) == ch \in {" ", "\t", "\n"}

RECURSIVE lstrip(_)
lstrip(s) == IF s # << >> /\ IsSpace(Head(s)) THEN lstrip(Tail(s)) ELSE s

RECURSIVE rstrip(_)
rstrip(s) ==
    IF s # << >> /\ IsSpace(s[Len(s)]) THEN rstrip(SubSeq(s, 1, Len(s) - 1)) ELSE s

strip(s) == rstrip(lstrip(s))

startswith(s, prefix) ==
    Len(s) >= Len(prefix) /\ SubSeq(s, 1, Len(prefix)) = prefix

\* The test of the scan without line.strip().
is_unchecked_unstripped(line) ==
    /\ line # << >>
    /\ ~startswith(line, << "[", "x", "]" >>)
    /\ ~startswith(line, << "[", "!", "]" >>)
    /\ ~startswith(line, << "#" >>)

\* stripped and not stripped.startswith("[x]") and not ... ("[!]") and not ... ("#")
is_unchecked(line) ==
    LET stripped == strip(line) IN
    /\ stripped # << >>
    /\ ~startswith(stripped, << "[", "x", "]" >>)
    /\ ~startswith(stripped, << "[", "!", "]" >>)
    /\ ~startswith(stripped, << "#" >>)

\* for i, line in enumerate(lines), from index i on: the first unchecked
\* task, or task_index -1.
RECURSIVE find_first_unchecked(_, _)
find_first_unchecked(ls, i) ==
    IF i >= Len(ls) THEN [task_index |-> -1, current_task |-> << >>]
    ELSE IF is_unchecked(ls[i + 1])
    THEN [task_index |-> i, current_task |-> strip(ls[i + 1])]
    ELSE find_first_unchecked(ls, i + 1)

\* The rewrite of a line leaving a failed task's line as it was.
mark_line_done_only(line, success) ==
    IF success = "True"
    THEN << "[", "x", "]", " " >> \o lstrip(line)
    ELSE line

\* The rewrite of a line trimming both of its ends.
mark_line_trimmed(line, success) ==
    IF success = "True"
    THEN << "[", "x", "]", " " >> \o strip(line)
    ELSE << "[", "!", "]", " " >> \o strip(line)

\* f"[x] {line.lstrip()}" on success, f"[!] {line.lstrip()}" otherwise
mark_line(line, success) ==
    IF success = "True"
    THEN << "[", "x", "]", " " >> \o lstrip(line)
    ELSE << "[", "!", "]", " " >> \o lstrip(line)

\* The write that overwrites the file in place without truncating it: the
\* lines the file has beyond those written stay.
writelines_in_place(file, ls) ==
    IF Len(file) > Len(ls) THEN ls \o SubSeq(file, Len(ls) + 1, Len(file)) ELSE ls

\* with open("tasks.txt", "w") as f: f.writelines(lines): whatever the file
\* held, it holds the lines written.
writelines(file, ls) == ls

\* The lines a task store is made of.
TaskLines ==
    { << "[", "x", "]", " ", "a", "\n" >>,
      << "b", "\n" >>,
      << "#", " ", "c", "\n" >>,
      << "[", "!", "]", " ", "d", "\n" >>,
      << "\n" >>,
      << " ", " ", "e", "\n" >>,
      << " ", "[", "x", "]", " ", "f", "\n" >> }

ExampleStore ==
    << << "[", "x", "]", " ", "a" >>, << "b" >>, << "#", " ", "c" >>,
       << "[", "!", "]", " ", "d" >>, << >> >>

\* The stores of at most n lines.
RECURSIVE Stores(_)
Stores(n) ==
    IF n = 0 THEN { << >> }
    ELSE LET shorter == Stores(n - 1) IN
         shorter \cup { Append(st, l) : st \in { x \in shorter : Len(x) = n - 1 },
                                        l \in TaskLines }

\* What a call of process_task does to main: it returns True or False, or an
\* exception leaves it.
process_task_outcomes == {"True", "False", "raised"}

(***************************************************************************)
(* main: the status of the pull request's checks                           *)
(***************************************************************************)
\* The checks the hosting service reports, each with a state and a
\* conclusion ("None" when the field is absent or null): a check that has
\* not completed has no conclusion yet, or still carries the failure of its
\* previous run.
CheckKinds ==
    << [state |-> "queued", conclusion |-> "None"],
       [state |-> "pending", conclusion |-> "None"],
       [state |-> "in_progress", conclusion |-> "None"],
       [state |-> "in_progress", conclusion |-> "failure"],
       [state |-> "completed", conclusion |-> "success"],
       [state |-> "completed", conclusion |-> "failure"],
       [state |-> "completed", conclusion |-> "None"] >>

\* The lists of at most n checks.  get_pr_status reads a list with all() and
\* any() only, so one order of each collection of checks is enough.
KindOf(check) == CHOOSE k \in 1..Len(CheckKinds) : CheckKinds[k] = check

RECURSIVE CheckLists(_)
CheckLists(n) ==
    IF n = 0 THEN { << >> }
    ELSE LET shorter == CheckLists(n - 1)
             longer == { Append(cs, CheckKinds[k]) :
                           cs \in { x \in shorter : Len(x) = n - 1 },
                           k \in 1..Len(CheckKinds) }
         IN  shorter \cup
             { cs \in longer : n = 1 \/ KindOf(cs[n - 1]) <= KindOf(cs[n]) }

\* What the queries of get_pr_status can come back with: no pull request
\* number, a failed "gh pr checks", output that is not JSON, or the checks.
Replies ==
    [kind : {"no_pr", "cmd_failed", "not_json"}, checks : { << >> }]
    \cup [kind : {"checks"}, checks : CheckLists(MaxChecks)]

\* {"success": False, "error": ...}: the other keys are absent, and
\* status.get(key) is None for them.
StatusError(error) ==
    [success |-> FALSE, error |-> error, checks |-> << >>,
     all_passed |-> FALSE, any_failed |-> FALSE, pending |-> FALSE]

\* status before the first poll.
NoStatus == StatusError("not polled")

\* The status calling an empty check set not passed.
get_pr_status_nonempty(reply) ==
    CASE reply.kind = "no_pr" -> StatusError("Could not find PR number")
      [] reply.kind = "cmd_failed" -> StatusError("{output}")
      [] reply.kind = "not_json" -> StatusError("Failed to parse checks JSON")
      [] OTHER ->
           LET checks == reply.checks IN
           [success |-> TRUE, error |-> "", checks |-> checks,
            all_passed |-> /\ checks # << >>
                           /\ \A i \in 1..Len(checks) :
                                 checks[i].state = "completed"
                                   => checks[i].conclusion = "success",
            any_failed |-> \E i \in 1..Len(checks) :
                              checks[i].conclusion = "failure",
            pending |-> \E i \in 1..Len(checks) :
                           checks[i].state \in {"pending", "queued", "in_progress"}]

get_pr_status(reply) ==
    CASE reply.kind = "no_pr" -> StatusError("Could not find PR number")
      [] reply.kind = "cmd_failed" -> StatusError("{output}")
      [] reply.kind = "not_json" -> StatusError("Failed to parse checks JSON")
      [] OTHER ->
           LET checks == reply.checks IN
           [success |-> TRUE, error |-> "", checks |-> checks,
            all_passed |-> \A i \in 1..Len(checks) :
                              checks[i].state = "completed"
                                => checks[i].conclusion = "success",
            any_failed |-> \E i \in 1..Len(checks) :
                              checks[i].conclusion = "failure",
            pending |-> \E i \in 1..Len(checks) :
                           checks[i].state \in {"pending", "queued", "in_progress"}]

\* The monitor testing all_passed before pending.
poll_outcome_passed_first(st) ==
    IF ~st.success THEN "continue"
    ELSE IF st.all_passed THEN "break"
    ELSE IF st.pending THEN "continue"
    ELSE IF st.any_failed THEN "fix"
    ELSE "continue"

\* The monitor testing any_failed before pending.
poll_outcome_failed_first(st) ==
    IF ~st.success THEN "continue"
    ELSE IF st.any_failed THEN "fix"
    ELSE IF st.pending THEN "continue"
    ELSE IF st.all_passed THEN "break"
    ELSE "continue"

\* The monitor leaving its loop on a status that fits no branch.
poll_outcome_unknown_breaks(st) ==
    IF ~st.success THEN "continue"
    ELSE IF st.pending THEN "continue"
    ELSE IF st.all_passed THEN "break"
    ELSE IF st.any_failed THEN "fix"
    ELSE "break"

\* What the monitor does with the status of a poll: "continue" polling,
\* "break" (all checks passed), or attempt a "fix".
poll_outcome(st) ==
    IF ~st.success THEN "continue"
    ELSE IF st.pending THEN "continue"
    ELSE IF st.all_passed THEN "break"
    ELSE IF st.any_failed THEN "fix"
    ELSE "continue"

\* The monitor's loop condition letting one more attempt through.
monitor_condition_inclusive(attempts) == attempts <= MAX_CI_FIX_ATTEMPTS

\* while ci_fix_attempts < MAX_CI_FIX_ATTEMPTS
monitor_condition(attempts) == attempts < MAX_CI_FIX_ATTEMPTS

\* Phase 2 never skipping the pull request.
no_task_succeeded_never(n) == FALSE

\* if tasks_succeeded == 0
no_task_succeeded(n) == n = 0

\* What a call of fix_ci_failure returns to main.
fix_ci_failure_outcomes == {"True", "False"}

(***************************************************************************)
(* State                                                                   *)
(***************************************************************************)
VARIABLES
    mode,             \* "process_task" or "fix_ci_failure": the running function
    MAX_ITERATIONS,   \* configuration: the iteration ceiling
    pc,               \* where the run is
    build_state,      \* the module-level BuildState
    messages,         \* the transcript
    iteration,
    tool_calls,       \* the tool calls of the current turn not yet processed
    result,           \* "none", or what the run returned: "True" or "False"
    task_line,        \* the marker main puts on the task's line: "", "[x]", "[!]"
    api_script,       \* SpecRetry: the remote's answers to successive invocations
    api,              \* SpecRetry: the state of the call_api_with_retry in progress
    function_response, \* SpecTruncate: what the tool called has returned
    main_pc,          \* where main is
    tasks_txt,        \* the file tasks.txt
    lines,            \* main's local: the lines read from tasks.txt
    task_index,
    current_task,
    success,          \* what process_task returned to main
    tasks_processed,
    tasks_succeeded,
    edits,            \* the edits others made to tasks.txt since main last read it
    pr_success,       \* what create_pull_request returned: "none", "True", "False"
    ci_fix_attempts,
    status,           \* what the last get_pr_status returned
    fix_success,      \* what the last fix_ci_failure returned
    called            \* how many times main has called each outward function

task_vars ==
    << tasks_txt, lines, task_index, current_task, success,
       tasks_processed, tasks_succeeded, edits >>

pr_vars == << pr_success, ci_fix_attempts, status, fix_success, called >>

main_vars == << main_pc, task_vars, pr_vars >>

NoCalls ==
    [push_to_fork |-> 0, create_pull_request |-> 0, get_pr_status |-> 0,
     fix_ci_failure |-> 0, git_checkout |-> 0]

\* Phase 2 has not begun.
PrIdle ==
    /\ pr_success = "none"
    /\ ci_fix_attempts = 0
    /\ status = NoStatus
    /\ fix_success = "none"
    /\ called = NoCalls

vars ==
    << mode, MAX_ITERATIONS, pc, build_state, messages, iteration, tool_calls,
       result, task_line, api_script, api, function_response, main_vars >>

config == << mode, MAX_ITERATIONS, api_script, api, function_response, main_vars >>

\* The variables of one conversation-loop run.
run_vars ==
    << mode, MAX_ITERATIONS, pc, build_state, messages, iteration, tool_calls,
       result, task_line, api_script, api, function_response >>

\* main is not running.
MainIdle ==
    /\ main_pc = "idle"
    /\ tasks_txt = << >>
    /\ lines = << >>
    /\ task_index = -1
    /\ current_task = << >>
    /\ success = "none"
    /\ tasks_processed = 0
    /\ tasks_succeeded = 0
    /\ edits = << >>
    /\ PrIdle

\* No conversation loop is running.
RunIdle ==
    /\ mode = "process_task"
    /\ MAX_ITERATIONS = 1
    /\ pc = "idle"
    /\ build_state = BuildStateInit
    /\ messages = << >>
    /\ iteration = 0
    /\ tool_calls = << >>
    /\ result = "none"
    /\ task_line = ""
    /\ api_script = << >>
    /\ api = ApiStart
    /\ function_response = << >>

\* The BuildState a run can find on entry: as constructed, or as an earlier
\* run of the session left it (a passed test command, a failed build).
EntryBuildStates ==
    { BuildStateInit,
      [build_attempted |-> TRUE, build_passed |-> TRUE,
       test_attempted |-> TRUE, test_passed |-> TRUE, last_error |-> None],
      [build_attempted |-> TRUE, build_passed |-> FALSE,
       test_attempted |-> FALSE, test_passed |-> FALSE,
       last_error |-> Lit("stdout+stderr", 1500)] }

Init ==
    /\ mode \in {"process_task", "fix_ci_failure"}
    /\ MAX_ITERATIONS \in 1..MaxIterationCeiling
    /\ pc = "entry"
    /\ build_state \in EntryBuildStates
    /\ messages = << >>
    /\ iteration = 0
    /\ tool_calls = << >>
    /\ result = "none"
    /\ task_line = ""
    /\ api_script = << >>
    /\ api = ApiStart
    /\ function_response = << >>
    /\ MainIdle

\* Tool calls requested so far in the run.
RECURSIVE Requested(_)
Requested(msgs) ==
    IF msgs = << >> THEN 0
    ELSE Len(Head(msgs).tool_calls) + Requested(Tail(msgs))

\* The tool-call lists of at most n calls the remote can put in its next
\* turn: ids are fresh.
RECURSIVE CallLists(_, _)
CallLists(first_id, n) ==
    IF n <= 0 THEN { << >> }
    ELSE LET shorter == CallLists(first_id, n - 1) IN
         shorter \cup
         { Append(l, [id |-> first_id + n - 1, name |-> sh.name,
                      arguments |-> sh.arguments, command |-> sh.command]) :
             l \in { x \in shorter : Len(x) = n - 1 }, sh \in ToolCallShapes }

corrective(m) ==
    IF m = "process_task"
    THEN PlainMessage("user", "SYSTEM: Build has NOT been verified. ...")
    ELSE PlainMessage("user", "SYSTEM: Build NOT verified. Run './gradlew build' now.")

(***************************************************************************)
(* The run: entry of process_task / fix_ci_failure                         *)
(***************************************************************************)
Enter ==
    /\ pc = "entry"
    /\ build_state' = reset(build_state)
    /\ messages' =
         IF mode = "process_task"
         THEN << PlainMessage("system", "system_prompt(process_task)"),
                 PlainMessage("user", "TASK: {task}") >>
         ELSE << PlainMessage("system", "system_prompt(fix_ci_failure)"),
                 PlainMessage("user", "Please fix the CI failures described above.") >>
    /\ iteration' = 0
    /\ pc' = "while"
    /\ UNCHANGED << config, tool_calls, result, task_line >>

\* while iteration < MAX_ITERATIONS
loop_condition(i, ceiling) == i < ceiling

\* The loop ends: return False.
Exhausted ==
    /\ pc = "while"
    /\ ~loop_condition(iteration, MAX_ITERATIONS)
    /\ result' = "False"
    /\ pc' = "returned"
    /\ UNCHANGED << config, build_state, messages, iteration, tool_calls, task_line >>

\* iteration += 1; call_api_with_retry raises; except Exception: return False
RemoteFailure ==
    /\ pc = "while"
    /\ loop_condition(iteration, MAX_ITERATIONS)
    /\ "raised" \in ApiOutcomes
    /\ iteration' = iteration + 1
    /\ result' = "False"
    /\ pc' = "returned"
    /\ UNCHANGED << config, build_state, messages, tool_calls, task_line >>

\* iteration += 1; call_api_with_retry returns a turn that requests tools;
\* messages.append(response_message)
ToolTurn ==
    /\ pc = "while"
    /\ loop_condition(iteration, MAX_ITERATIONS)
    /\ "returned" \in ApiOutcomes
    /\ iteration' = iteration + 1
    /\ \E calls \in CallLists(Requested(messages) + 1,
                              MaxToolCalls - Requested(messages)) \ { << >> } :
         /\ messages' = Append(messages, AssistantMessage(calls))
         /\ tool_calls' = calls
    /\ pc' = "for_tool_call"
    /\ UNCHANGED << config, build_state, result, task_line >>

\* The pass leaving BuildState as it was before the call.
tool_call_step_discards_state(m, bs, call, env) ==
    LET r == IF m = "process_task"
             THEN process_task_tool_call(bs, call, env)
             ELSE fix_ci_failure_tool_call(bs, call, env)
    IN  [r EXCEPT !.bs = bs]

tool_call_step(m, bs, call, env) ==
    IF m = "process_task"
    THEN process_task_tool_call(bs, call, env)
    ELSE fix_ci_failure_tool_call(bs, call, env)

\* One pass of "for tool_call in tool_calls".
ToolCall ==
    /\ pc = "for_tool_call"
    /\ tool_calls # << >>
    /\ \E env \in Envs(Head(tool_calls).name) :
         LET r == tool_call_step(mode, build_state, Head(tool_calls), env) IN
         /\ build_state' = r.bs
         /\ messages' = messages \o r.appended
         /\ IF r.raised
            THEN pc' = "raised" /\ tool_calls' = tool_calls
            ELSE /\ tool_calls' = Tail(tool_calls)
                 /\ pc' = IF Tail(tool_calls) = << >> THEN "while" ELSE "for_tool_call"
    /\ UNCHANGED << config, iteration, result, task_line >>

\* The final turn trusting any attempted build.
no_tools_outcome_trusting(m, bs) ==
    IF bs.build_attempted THEN "return True" ELSE "corrective"

\* What a turn that requests no tools leads to.
no_tools_outcome(m, bs) ==
    IF is_verified(bs) THEN "return True"
    ELSE IF m = "process_task" /\ ~REQUIRE_BUILD_VERIFICATION THEN "return True"
    ELSE "corrective"

\* iteration += 1; call_api_with_retry returns a turn that requests no
\* tools; messages.append(response_message)
FinalTurn ==
    /\ pc = "while"
    /\ loop_condition(iteration, MAX_ITERATIONS)
    /\ "returned" \in ApiOutcomes
    /\ iteration' = iteration + 1
    /\ IF no_tools_outcome(mode, build_state) = "return True"
       THEN /\ messages' = Append(messages, AssistantMessage(<< >>))
            /\ result' = "True"
            /\ pc' = "returned"
       ELSE /\ messages' = messages \o << AssistantMessage(<< >>), corrective(mode) >>
            /\ result' = result
            /\ pc' = "while"
    /\ UNCHANGED << config, build_state, tool_calls, task_line >>

(***************************************************************************)
(* main: the caller of process_task marks the task's line                  *)
(***************************************************************************)
\* The mark of a task whatever its run returned.
marker_always_done(returned) == "[x]"

marker(returned) == IF returned = "True" THEN "[x]" ELSE "[!]"

MarkTask ==
    /\ pc = "returned"
    /\ mode = "process_task"
    /\ task_line' = marker(result)
    /\ pc' = "marked"
    /\ UNCHANGED << config, build_state, messages, iteration, tool_calls, result >>

Next ==
    \/ Enter
    \/ Exhausted
    \/ RemoteFailure
    \/ ToolTurn
    \/ ToolCall
    \/ FinalTurn
    \/ MarkTask

Spec == Init /\ [][Next]_vars

(***************************************************************************)
(* call_api_with_retry on its own, one pass of its loop per step           *)
(***************************************************************************)
InitRetry ==
    /\ mode = "process_task"
    /\ MAX_ITERATIONS = 1
    /\ pc = "call_api"
    /\ build_state = BuildStateInit
    /\ messages = << >>
    /\ iteration = 1
    /\ tool_calls = << >>
    /\ result = "none"
    /\ task_line = ""
    /\ api_script \in Scripts
    /\ api = ApiStart
    /\ function_response = << >>
    /\ MainIdle

ApiAttempt ==
    /\ pc = "call_api"
    /\ api.status = "running"
    /\ api_script # << >>
    /\ api' = api_attempt(api, Head(api_script))
    /\ api_script' = Tail(api_script)
    /\ UNCHANGED << mode, MAX_ITERATIONS, pc, build_state, messages, iteration,
                    tool_calls, result, task_line, function_response, main_vars >>

NextRetry == ApiAttempt

SpecRetry == InitRetry /\ [][NextRetry]_vars


(***************************************************************************)
(* main, phase 1: the task-processing loop                                 *)
(***************************************************************************)
InitTasks ==
    /\ RunIdle
    /\ main_pc = "while"
    /\ tasks_txt \in Stores(MaxLines) \cup {ExampleStore}
    /\ lines = tasks_txt
    /\ task_index = -1
    /\ current_task = << >>
    /\ success = "none"
    /\ tasks_processed = 0
    /\ tasks_succeeded = 0
    /\ edits = << >>
    /\ PrIdle

\* lines = f.readlines(); the scan finds a task; tasks_processed += 1
SelectTask ==
    /\ main_pc = "while"
    /\ LET found == find_first_unchecked(tasks_txt, 0) IN
       /\ found.task_index # -1
       /\ task_index' = found.task_index
       /\ current_task' = found.current_task
    /\ lines' = tasks_txt
    /\ edits' = << >>
    /\ tasks_processed' = tasks_processed + 1
    /\ main_pc' = "process_task"
    /\ UNCHANGED << run_vars, pr_vars, tasks_txt, success, tasks_succeeded >>

\* lines = f.readlines(); the scan finds nothing: break
AllTasksCompleted ==
    /\ main_pc = "while"
    /\ LET found == find_first_unchecked(tasks_txt, 0) IN
       /\ found.task_index = -1
       /\ task_index' = found.task_index
       /\ current_task' = found.current_task
    /\ lines' = tasks_txt
    /\ edits' = << >>
    /\ main_pc' = "phase2"
    /\ UNCHANGED << run_vars, pr_vars, tasks_txt, success, tasks_processed,
                    tasks_succeeded >>

\* success = process_task(current_task, ...)
ProcessTask ==
    /\ main_pc = "process_task"
    /\ \E outcome \in process_task_outcomes :
         IF outcome = "raised"
         THEN main_pc' = "raised" /\ success' = success
         ELSE main_pc' = "mark" /\ success' = outcome
    /\ UNCHANGED << run_vars, pr_vars, tasks_txt, lines, task_index, current_task,
                    tasks_processed, tasks_succeeded, edits >>

\* lines[task_index] = ...; f.writelines(lines); time.sleep(2)
MarkOutcome ==
    /\ main_pc = "mark"
    /\ lines' = [lines EXCEPT ![task_index + 1] = mark_line(@, success)]
    /\ tasks_txt' = writelines(tasks_txt, lines')
    /\ tasks_succeeded' = IF success = "True" THEN tasks_succeeded + 1
                          ELSE tasks_succeeded
    /\ main_pc' = "while"
    /\ UNCHANGED << run_vars, pr_vars, task_index, current_task, success,
                    tasks_processed, edits >>

NextTasks ==
    \/ SelectTask
    \/ AllTasksCompleted
    \/ ProcessTask
    \/ MarkOutcome

SpecTasks == InitTasks /\ [][NextTasks]_vars

(***************************************************************************)
(* The task loop with tasks.txt edited by others while process_task runs   *)
(***************************************************************************)
\* A task line somebody adds.
NewLine == << "n", "\n" >>

\* The edits somebody can make to the file: a task line inserted at the top
\* or added at the end, a line removed, a pending line marked done by hand.
ExternalEdits(file) ==
    { [kind |-> "insert", at |-> p, line |-> NewLine] : p \in {1, Len(file) + 1} }
      \cup { [kind |-> "remove", at |-> i, line |-> file[i]] : i \in 1..Len(file) }
      \cup { [kind |-> "remark", at |-> i,
              line |-> << "[", "x", "]", " " >> \o file[i]] :
                i \in { j \in 1..Len(file) : is_unchecked(file[j]) } }

ApplyEdit(file, e) ==
    CASE e.kind = "insert" ->
           SubSeq(file, 1, e.at - 1) \o << e.line >> \o SubSeq(file, e.at, Len(file))
      [] e.kind = "remove" ->
           SubSeq(file, 1, e.at - 1) \o SubSeq(file, e.at + 1, Len(file))
      [] OTHER -> [file EXCEPT ![e.at] = e.line]

\* Between main's f.readlines() and its f.writelines(lines), while
\* process_task runs, somebody else rewrites tasks.txt; main's lines,
\* task_index and current_task are locals and stay.
ExternalEdit ==
    /\ main_pc = "process_task"
    /\ Len(edits) < MaxEdits
    /\ \E e \in ExternalEdits(tasks_txt) :
         /\ tasks_txt' = ApplyEdit(tasks_txt, e)
         /\ edits' = Append(edits, e)
    /\ UNCHANGED << run_vars, pr_vars, main_pc, lines, task_index, current_task,
                    success, tasks_processed, tasks_succeeded >>

NextTasksEdited ==
    \/ SelectTask
    \/ AllTasksCompleted
    \/ ProcessTask
    \/ MarkOutcome
    \/ ExternalEdit

\* The stores edited: a done task, a pending task and an indented pending
\* task, in any order, or the five-line example.
InitTasksEdited ==
    /\ InitTasks
    /\ \/ tasks_txt = ExampleStore
       \/ \A i \in 1..Len(tasks_txt) :
            tasks_txt[i] \in { << "[", "x", "]", " ", "a", "\n" >>,
                               << "b", "\n" >>,
                               << " ", " ", "e", "\n" >> }

SpecTasksEdited == InitTasksEdited /\ [][NextTasksEdited]_vars

\* Each step of main is taken: nothing else runs and nothing blocks for ever.
SpecTasksFair == SpecTasks /\ WF_vars(NextTasks)

(***************************************************************************)
(* main, phases 2 and 3: the pull request and the CI monitor               *)
(***************************************************************************)
\* The store after a session in which every one of n lines was a task and
\* the first k of them succeeded.
StoreAfter(n, k) ==
    [i \in 1..n |-> mark_line(<< "b", "\n" >>, IF i <= k THEN "True" ELSE "False")]

\* The task loop has ended: no line is pending.
InitMonitor ==
    /\ RunIdle
    /\ main_pc = "phase2"
    /\ tasks_processed = MaxLines
    /\ tasks_succeeded \in 0..MaxLines
    /\ tasks_txt = StoreAfter(tasks_processed, tasks_succeeded)
    /\ lines = tasks_txt
    /\ task_index = -1
    /\ current_task = << >>
    /\ success = IF tasks_succeeded = tasks_processed THEN "True" ELSE "False"
    /\ edits = << >>
    /\ PrIdle

\* if tasks_succeeded == 0: run_cmd(f"git checkout {original_branch}"); return
SkipPullRequest ==
    /\ main_pc = "phase2"
    /\ no_task_succeeded(tasks_succeeded)
    /\ called' = [called EXCEPT !.git_checkout = @ + 1]
    /\ main_pc' = "returned"
    /\ UNCHANGED << run_vars, task_vars, pr_success, ci_fix_attempts, status,
                    fix_success >>

\* if not push_to_fork(feature_branch, fork_remote): return
PushToFork ==
    /\ main_pc = "phase2"
    /\ ~no_task_succeeded(tasks_succeeded)
    /\ called' = [called EXCEPT !.push_to_fork = @ + 1]
    /\ \E pushed \in BOOLEAN :
         main_pc' = IF pushed THEN "create_pull_request" ELSE "returned"
    /\ UNCHANGED << run_vars, task_vars, pr_success, ci_fix_attempts, status,
                    fix_success >>

\* pr_success, pr_url = create_pull_request(...); if not pr_success: return;
\* ci_fix_attempts = 0
CreatePullRequest ==
    /\ main_pc = "create_pull_request"
    /\ called' = [called EXCEPT !.create_pull_request = @ + 1]
    /\ \E created \in {"True", "False"} :
         /\ pr_success' = created
         /\ main_pc' = IF created = "True" THEN "monitor" ELSE "returned"
    /\ ci_fix_attempts' = 0
    /\ UNCHANGED << run_vars, task_vars, status, fix_success >>

\* One pass of the monitor's loop up to the call of fix_ci_failure:
\* time.sleep(CI_POLL_INTERVAL); status = get_pr_status(feature_branch)
Poll ==
    /\ main_pc = "monitor"
    /\ monitor_condition(ci_fix_attempts)
    /\ called.get_pr_status < MaxPolls
    /\ called' = [called EXCEPT !.get_pr_status = @ + 1]
    /\ \E reply \in Replies :
         /\ status' = get_pr_status(reply)
         /\ CASE poll_outcome(status') = "continue" ->
                   main_pc' = "monitor" /\ ci_fix_attempts' = ci_fix_attempts
              [] poll_outcome(status') = "break" ->
                   main_pc' = "summary" /\ ci_fix_attempts' = ci_fix_attempts
              [] poll_outcome(status') = "fix" ->
                   main_pc' = "fix_ci_failure" /\ ci_fix_attempts' = ci_fix_attempts + 1
    /\ UNCHANGED << run_vars, task_vars, pr_success, fix_success >>

\* fix_success = fix_ci_failure(...); if fix_success: push_to_fork(...)
FixCiFailure ==
    /\ main_pc = "fix_ci_failure"
    /\ \E returned \in fix_ci_failure_outcomes :
         /\ fix_success' = returned
         /\ called' = [called EXCEPT !.fix_ci_failure = @ + 1,
                                     !.push_to_fork =
                                        IF returned = "True" THEN @ + 1 ELSE @]
    /\ main_pc' = "monitor"
    /\ UNCHANGED << run_vars, task_vars, pr_success, ci_fix_attempts, status >>

\* The while condition fails: the session summary.
MonitorExhausted ==
    /\ main_pc = "monitor"
    /\ ~monitor_condition(ci_fix_attempts)
    /\ main_pc' = "summary"
    /\ UNCHANGED << run_vars, task_vars, pr_vars >>

NextMonitor ==
    \/ SkipPullRequest
    \/ PushToFork
    \/ CreatePullRequest
    \/ Poll
    \/ FixCiFailure
    \/ MonitorExhausted

SpecMonitor == InitMonitor /\ [][NextMonitor]_vars

(***************************************************************************)
(* The conversation loop from the return of a tool to the append of its    *)
(* result, for results around the truncation limit                         *)
(***************************************************************************)
ResponseLens ==
    (TRUNCATE_LIMIT - MaxSlack)..(TRUNCATE_LIMIT + MaxSlack) \cup {12000}

\* What run_shell returns: the output of a command that exited 0, or the
\* prefixed output of one that did not.
FunctionResponses ==
    { Lit("stdout+stderr", n) : n \in ResponseLens }
    \cup { Lit("Command failed with exit code 1:\n", FAIL_PREFIX_LEN)
             \o Lit("stdout+stderr", n) : n \in ResponseLens }

InitTruncate ==
    /\ mode \in {"process_task", "fix_ci_failure"}
    /\ MAX_ITERATIONS = 1
    /\ pc = "tool_returned"
    /\ build_state = BuildStateInit
    /\ tool_calls = << [id |-> 1, name |-> "run_shell", arguments |-> "valid",
                        command |-> "git status"] >>
    /\ messages = << AssistantMessage(tool_calls) >>
    /\ iteration = 1
    /\ result = "none"
    /\ task_line = ""
    /\ api_script = << >>
    /\ api = ApiStart
    /\ function_response \in FunctionResponses
    /\ MainIdle

\* if len(function_response) > 10000: ...; messages.append({... "content":
\* str(function_response)})
AppendToolResult ==
    /\ pc = "tool_returned"
    /\ messages' = Append(messages,
                          ToolMessage(Head(tool_calls), Truncate(function_response)))
    /\ tool_calls' = Tail(tool_calls)
    /\ pc' = "while"
    /\ UNCHANGED << config, build_state, iteration, result, task_line >>

NextTruncate == AppendToolResult

SpecTruncate == InitTruncate /\ [][NextTruncate]_vars

(***************************************************************************)
(* Reading the transcript                                                  *)
(***************************************************************************)
Last(seq) == seq[Len(seq)]

AllCalls(msgs) ==
    UNION { { m.tool_calls[k] : k \in 1..Len(m.tool_calls) } :
            m \in { msgs[i] : i \in 1..Len(msgs) } }

CommandOf(msgs, id) == (CHOOSE c \in AllCalls(msgs) : c.id = id).command

Classified(command) == is_build_command(command) \/ is_test_command(command)

\* A run_shell result of a command that exited 0: the bare output.
ShellExit0(m) ==
    /\ m.role = "tool" /\ m.name = "run_shell"
    /\ (m.content = << >> \/ m.content[1].src = "stdout+stderr")

\* A run_shell result of a command that exited non-zero.
ShellNonZero(m) ==
    /\ m.role = "tool" /\ m.name = "run_shell" /\ m.content # << >>
    /\ m.content[1].src = "Command failed with exit code 1:\n"

WriteOk(m) ==
    /\ m.role = "tool" /\ m.name = "write_file" /\ m.content # << >>
    /\ m.content[1].src = "Successfully wrote to {path}"

Unverified == ~(build_state.build_attempted /\ build_state.build_passed)

\* The step appends an assistant turn that requests no tools.
NoToolsTurnStep ==
    /\ pc = "while"
    /\ Len(messages') > Len(messages)
    /\ messages'[Len(messages) + 1].role = "assistant"
    /\ messages'[Len(messages) + 1].tool_calls = << >>

CorrectiveCount(msgs) ==
    Cardinality({ i \in 1..Len(msgs) :
                    msgs[i].role = "user" /\ i > 2 })

\* Exactly one corrective user turn is appended after the assistant turn,
\* nothing else of the transcript changes, and the run does not return.
OneCorrectiveTurn ==
    /\ Len(messages') = Len(messages) + 2
    /\ SubSeq(messages', 1, Len(messages)) = messages
    /\ messages'[Len(messages) + 2].role = "user"
    /\ CorrectiveCount(messages') = CorrectiveCount(messages) + 1
    /\ result' = "none"
    /\ pc' = "while"

(***************************************************************************)
(* C1.  As stated: a turn that requests no tools while the build is not    *)
(* verified appends exactly one corrective user turn, never returns        *)
(* success, and the loop continues with another iteration.                 *)
(***************************************************************************)
C1_CorrectiveThenAnotherIteration ==
    [][ (NoToolsTurnStep /\ Unverified)
          => (OneCorrectiveTurn /\ iteration' < MAX_ITERATIONS) ]_vars

\* C1, amended: a turn that requests no tools while the build is not
\* verified appends exactly one corrective user turn, never returns success,
\* and control goes back to the loop head; from the loop head another
\* iteration follows while the ceiling is not reached, and at the ceiling the
\* run returns failure.
C1_CorrectiveThenLoopHead ==
    [][ /\ (NoToolsTurnStep /\ Unverified) => OneCorrectiveTurn
        /\ (pc = "while" /\ iteration < MAX_ITERATIONS) => iteration' = iteration + 1
        /\ (pc = "while" /\ iteration >= MAX_ITERATIONS)
              => (result' = "False" /\ pc' = "returned") ]_vars

\* A corrective turn was injected and the loop goes on to another iteration.
C1_Witness ==
    /\ pc = "while"
    /\ iteration < MAX_ITERATIONS
    /\ Len(messages) > 2
    /\ Last(messages).role = "user"
    /\ Last(messages) = corrective(mode)
    /\ Unverified
    /\ result = "none"

(***************************************************************************)
(* C2.  If process_task returned True (and the task is marked done), the   *)
(* transcript holds the result of a build- or test-classified run_shell    *)
(* that exited 0, and after the most recent such result no write_file      *)
(* succeeded and no classified run_shell exited non-zero.                  *)
(***************************************************************************)
VerifiedByTranscript(msgs) ==
    \E i \in 1..Len(msgs) :
        /\ ShellExit0(msgs[i])
        /\ Classified(CommandOf(msgs, msgs[i].tool_call_id))
        /\ \A j \in (i + 1)..Len(msgs) :
              /\ ~WriteOk(msgs[j])
              /\ ~(ShellNonZero(msgs[j])
                   /\ Classified(CommandOf(msgs, msgs[j].tool_call_id)))

C2_SuccessOnlyAfterPassingBuild ==
    (mode = "process_task" /\ (result = "True" \/ task_line = "[x]"))
        => VerifiedByTranscript(messages)

\* A task marked done whose run wrote a file and then built it.
C2_Witness ==
    /\ mode = "process_task"
    /\ task_line = "[x]"
    /\ \E i \in 1..Len(messages) : WriteOk(messages[i])

(***************************************************************************)
(* C3.  A write_file call that succeeds leaves build_attempted and         *)
(* build_passed false whatever they were; one that fails leaves both       *)
(* unchanged.                                                              *)
(***************************************************************************)
C3_WriteResetsBuildFlags ==
    [][ (pc = "for_tool_call" /\ Head(tool_calls).name = "write_file")
          => IF messages' # messages /\ WriteOk(Last(messages'))
             THEN /\ ~build_state'.build_attempted
                  /\ ~build_state'.build_passed
             ELSE /\ build_state'.build_attempted = build_state.build_attempted
                  /\ build_state'.build_passed = build_state.build_passed ]_vars

\* A successful write right after a passed build: the flags are down again.
C3_Witness ==
    /\ Len(messages) > 1
    /\ WriteOk(Last(messages))
    /\ ShellExit0(messages[Len(messages) - 1])
    /\ CommandOf(messages, messages[Len(messages) - 1].tool_call_id) = "./gradlew build"
    /\ ~build_state.build_attempted
    /\ ~build_state.build_passed

(***************************************************************************)
(* C4.  run_shell "./gradlew build" exiting 0 leaves build_attempted and   *)
(* build_passed true; exiting non-zero it leaves build_attempted true,     *)
(* build_passed false and last_error the last 2000 characters of the       *)
(* output.  A command matching no keyword ("git status") leaves BuildState *)
(* unchanged.                                                              *)
(***************************************************************************)
\* The last 2000 characters of the output whose result message is m.
OutputTail(m) ==
    LET L == Last(m.content).hi IN
    << [src |-> "stdout+stderr", lo |-> IF L > 2000 THEN L - 1999 ELSE 1, hi |-> L] >>

C4_RunShellTracksBuild ==
    [][ (pc = "for_tool_call" /\ Head(tool_calls).name = "run_shell"
         /\ messages' # messages)
          => LET c == Head(tool_calls).command
                 m == Last(messages')
             IN  /\ (c = "./gradlew build" /\ ShellExit0(m))
                       => /\ build_state'.build_attempted
                          /\ build_state'.build_passed
                 /\ (c = "./gradlew build" /\ ShellNonZero(m))
                       => /\ build_state'.build_attempted
                          /\ ~build_state'.build_passed
                          /\ build_state'.last_error = OutputTail(m)
                 /\ c = "git status" => build_state' = build_state ]_vars

\* A failed build whose 12000-character output left its last 2000 characters.
C4_Witness ==
    /\ build_state.build_attempted
    /\ ~build_state.build_passed
    /\ build_state.last_error = << [src |-> "stdout+stderr", lo |-> 10001, hi |-> 12000] >>
    /\ messages # << >>
    /\ ShellNonZero(Last(messages))

(***************************************************************************)
(* C5.  A run performs at most MAX_ITERATIONS iterations, and a run in     *)
(* which the remote answered every request with a turn that requests tools *)
(* ends returning failure after exactly MAX_ITERATIONS iterations.         *)
(***************************************************************************)
AssistantTurns(msgs) == { i \in 1..Len(msgs) : msgs[i].role = "assistant" }

C5_AlwaysToolsRunFailsAtCeiling ==
    /\ iteration <= MAX_ITERATIONS
    /\ (/\ pc \in {"returned", "marked", "raised"}
        /\ Cardinality(AssistantTurns(messages)) = iteration
        /\ \A i \in AssistantTurns(messages) : messages[i].tool_calls # << >>)
          => (result = "False" /\ iteration = MAX_ITERATIONS)

(***************************************************************************)
(* C6.  call_api_with_retry invokes the remote at most MAX_RETRIES times,  *)
(* returns at the first success, sleeps RETRY_BASE_DELAY * 2^attempt after *)
(* each failure but the last and raises after the last without sleeping:   *)
(* with 3 attempts and base 2 the sleeps are 2 then 4.                     *)
(***************************************************************************)
Invocations(trace) == { i \in 1..Len(trace) : trace[i].op = "create" }

Sleeps(trace) == { i \in 1..Len(trace) : trace[i].op = "sleep" }

C6_RetryBackoff ==
    /\ Cardinality(Invocations(api.trace)) <= MAX_RETRIES
    /\ \A i \in Sleeps(api.trace) :
          \* a sleep follows a failed invocation; the k-th sleep lasts base * 2^(k-1)
          /\ i > 1 /\ api.trace[i - 1] = Invoke("error")
          /\ api.trace[i].seconds
               = RETRY_BASE_DELAY * 2 ^ Cardinality({ j \in Sleeps(api.trace) : j < i })
    /\ \A i \in Invocations(api.trace) :
          \* a success is the last event; a failure but the last is followed by a sleep
          /\ api.trace[i].outcome = "ok" => i = Len(api.trace)
          /\ (api.trace[i].outcome = "error" /\ i < Len(api.trace))
                => api.trace[i + 1].op = "sleep"
    /\ api.status = "returned"
          <=> (api.trace # << >> /\ Last(api.trace) = Invoke("ok"))
    /\ api.status = "raised"
          <=> api.trace = << Invoke("error"), Sleep(2), Invoke("error"), Sleep(4),
                             Invoke("error") >>
    /\ api.status = "running"
          => api.trace \in { << >>, << Invoke("error"), Sleep(2) >>,
                             << Invoke("error"), Sleep(2), Invoke("error"), Sleep(4) >> }

\* The remote failed twice and then answered: sleeps of 2 and 4, one success.
C6_Witness ==
    /\ api.status = "returned"
    /\ api.trace = << Invoke("error"), Sleep(2), Invoke("error"), Sleep(4), Invoke("ok") >>

(***************************************************************************)
(* C7.  Once a turn's tool calls are processed, every requested call whose *)
(* name is not a known tool is answered by a tool-result turn carrying its *)
(* id.                                                                     *)
(***************************************************************************)
C7_UnknownToolAnswered ==
    pc = "while"
      => \A c \in AllCalls(messages) :
            c.name \notin ToolNames
              => \E i \in 1..Len(messages) :
                    messages[i].role = "tool" /\ messages[i].tool_call_id = c.id

(***************************************************************************)
(* C8.  A tool call whose arguments are not JSON appends one tool-result   *)
(* turn carrying the call's id and an error message, executes nothing,     *)
(* leaves BuildState unchanged, and the loop goes on with the next call.   *)
(***************************************************************************)
C8_BadJsonAnswered ==
    [][ (pc = "for_tool_call" /\ Head(tool_calls).arguments = "not_json")
          => /\ Len(messages') = Len(messages) + 1
             /\ Last(messages').role = "tool"
             /\ Last(messages').tool_call_id = Head(tool_calls).id
             /\ build_state' = build_state
             /\ tool_calls' = Tail(tool_calls)
             /\ pc' \in {"for_tool_call", "while"} ]_vars

(***************************************************************************)
(* C9.  No failure of a tool call leaves the conversation loop as an       *)
(* exception: the run ends by returning True or False, and main marks the  *)
(* task.                                                                   *)
(***************************************************************************)
C9_NoExceptionLeavesTheLoop ==
    /\ pc # "raised"
    /\ pc \in {"returned", "marked"} => result \in {"True", "False"}

(***************************************************************************)
(* C10.  build_passed implies build_attempted in every reachable state.    *)
(***************************************************************************)
C10_PassedImpliesAttempted ==
    build_state.build_passed => build_state.build_attempted

\* A build that passed after an earlier one had failed.
C10_Witness ==
    /\ build_state.build_passed
    /\ build_state.build_attempted
    /\ build_state.last_error # None
    /\ pc # "entry"

(***************************************************************************)
(* C11.  A write_file call that succeeds leaves all four flags false:      *)
(* build_attempted, build_passed, test_attempted and test_passed, whatever *)
(* they were before.                                                       *)
(***************************************************************************)
C11_WriteResetsAllFlags ==
    [][ (/\ pc = "for_tool_call"
         /\ Head(tool_calls).name = "write_file"
         /\ messages' # messages
         /\ WriteOk(Last(messages')))
          => /\ ~build_state'.build_attempted
             /\ ~build_state'.build_passed
             /\ ~build_state'.test_attempted
             /\ ~build_state'.test_passed ]_vars

(***************************************************************************)
(* Reading the task store                                                  *)
(***************************************************************************)
Blank(ch) == ch = " " \/ ch = "\t" \/ ch = "\n"

\* The positions of the characters of a line that are not whitespace.
Ink(l) == { i \in 1..Len(l) : ~Blank(l[i]) }

FirstInk(l) == CHOOSE i \in Ink(l) : \A j \in Ink(l) : i <= j

LastInk(l) == CHOOSE i \in Ink(l) : \A j \in Ink(l) : i >= j

\* The line with the whitespace at both ends trimmed.
Trimmed(l) == IF Ink(l) = {} THEN << >> ELSE SubSeq(l, FirstInk(l), LastInk(l))

MarkedWith(l, ch) ==
    LET t == Trimmed(l) IN
    Len(t) >= 3 /\ t[1] = "[" /\ t[2] = ch /\ t[3] = "]"

\* Trimmed, the line is not empty and starts with none of "[x]", "[!]", "#".
PendingLine(l) ==
    /\ Ink(l) # {}
    /\ ~MarkedWith(l, "x")
    /\ ~MarkedWith(l, "!")
    /\ Trimmed(l)[1] # "#"

PendingCount(store) == Cardinality({ i \in 1..Len(store) : PendingLine(store[i]) })

(***************************************************************************)
(* C12.  The task main selects is the lowest-index line of the store that, *)
(* trimmed, is not empty and starts with none of "[x]", "[!]" and "#", and *)
(* its text is the trimmed line; when no line is such, nothing is selected *)
(* and the loop ends.  On ["[x] a", "b", "# c", "[!] d", ""] the selection *)
(* is index 1 with text "b".                                               *)
(***************************************************************************)
C12_NextPendingIsLowestIndex ==
    /\ main_pc = "process_task"
         => /\ task_index + 1 \in 1..Len(lines)
            /\ PendingLine(lines[task_index + 1])
            /\ \A j \in 1..task_index : ~PendingLine(lines[j])
            /\ current_task = Trimmed(lines[task_index + 1])
    /\ main_pc = "phase2"
         => /\ task_index = -1
            /\ \A j \in 1..Len(lines) : ~PendingLine(lines[j])
    /\ (main_pc = "process_task" /\ lines = ExampleStore)
         => (task_index = 1 /\ current_task = << "b" >>)

\* The scan of the example store has selected index 1, "b".
C12_Witness ==
    /\ main_pc = "process_task"
    /\ lines = ExampleStore
    /\ task_index = 1
    /\ current_task = << "b" >>
    /\ tasks_processed = 1

(***************************************************************************)
(* C13.  A task whose run returned failure is marked "[!]" (one that       *)
(* returned success "[x]") before the next scan; a line that is not        *)
(* pending stays so and is never selected; each marking lowers the number  *)
(* of pending lines by one; so the number of runs started never exceeds    *)
(* the number of lines pending at the start, and the loop ends.            *)
(***************************************************************************)
InFlight == IF main_pc \in {"process_task", "mark", "raised"} THEN 1 ELSE 0

\* Runs started, plus lines still pending, not counting twice the task in
\* flight: at the start this is the number of pending lines.
PendingAtStart == tasks_processed + PendingCount(tasks_txt) - InFlight

C13_FailedTasksMarkedLoopTerminates ==
    /\ [][ main_pc = "mark"
             => /\ success = "False" => MarkedWith(tasks_txt'[task_index + 1], "!")
                /\ success = "True" => MarkedWith(tasks_txt'[task_index + 1], "x")
                /\ PendingCount(tasks_txt') = PendingCount(tasks_txt) - 1
                /\ main_pc' = "while" ]_vars
    /\ [][ \A i \in 1..Len(tasks_txt) :
             ~PendingLine(tasks_txt[i])
               => /\ Len(tasks_txt') >= i
                  /\ ~PendingLine(tasks_txt'[i])
                  /\ main_pc' = "process_task" => task_index' + 1 # i ]_vars
    /\ [][ PendingAtStart' = PendingAtStart ]_vars
    /\ [](tasks_processed <= PendingAtStart)
    /\ <>(main_pc \in {"phase2", "raised"})

\* A first task failed and was marked, and the next scan selected another.
C13_Witness ==
    /\ main_pc = "process_task"
    /\ tasks_processed = 2
    /\ tasks_succeeded = 0
    /\ \E i \in 1..task_index : lines[i] = << "[", "!", "]", " ", "e", "\n" >>
    /\ PendingCount(tasks_txt) >= 1

(***************************************************************************)
(* Reading a poll of the CI monitor                                        *)
(***************************************************************************)
\* The status query succeeded.
Queried(st) == st.error = ""

SomeCheckRunning(st) ==
    \E i \in 1..Len(st.checks) :
        st.checks[i].state \in {"queued", "pending", "in_progress"}

CompletedAllSucceeded(st) ==
    \A i \in 1..Len(st.checks) :
        st.checks[i].state = "completed" => st.checks[i].conclusion = "success"

SomeCheckFailed(st) ==
    \E i \in 1..Len(st.checks) : st.checks[i].conclusion = "failure"

\* The poll is classified as failed: nothing is running, not every completed
\* check succeeded, and some check failed.
ClassifiedFailed(st) ==
    /\ Queried(st)
    /\ ~SomeCheckRunning(st)
    /\ ~CompletedAllSucceeded(st)
    /\ SomeCheckFailed(st)

\* The step is a poll.
PollStep == called'.get_pr_status = called.get_pr_status + 1

Monitoring == main_pc \in {"monitor", "fix_ci_failure"}

(***************************************************************************)
(* C14.  The monitor adds one to ci_fix_attempts at each poll classified   *)
(* as failed and at no other step; it runs at most MAX_CI_FIX_ATTEMPTS (5) *)
(* fix loops; with the counter at the ceiling it leaves the loop for the   *)
(* summary without another call; a fix loop, whatever it returns, is       *)
(* followed by more monitoring; and during monitoring the branch is pushed *)
(* only by a step in which fix_ci_failure returned True.                   *)
(***************************************************************************)
C14_FixAttemptsCountedAndBounded ==
    /\ [][ IF PollStep /\ ClassifiedFailed(status')
           THEN /\ ci_fix_attempts' = ci_fix_attempts + 1
                /\ main_pc' = "fix_ci_failure"
           ELSE ci_fix_attempts' = ci_fix_attempts ]_vars
    /\ [](/\ ci_fix_attempts <= 5
          /\ called.fix_ci_failure <= 5
          /\ called.fix_ci_failure <= ci_fix_attempts
          /\ main_pc # "raised")
    /\ [][ (main_pc = "monitor" /\ ci_fix_attempts >= 5)
             => (main_pc' = "summary" /\ called' = called) ]_vars
    /\ [][ main_pc = "fix_ci_failure"
             => /\ main_pc' = "monitor"
                /\ called'.fix_ci_failure = called.fix_ci_failure + 1 ]_vars
    /\ [][ (Monitoring /\ called'.push_to_fork # called.push_to_fork)
             => /\ main_pc = "fix_ci_failure"
                /\ fix_success' = "True"
                /\ called'.push_to_fork = called.push_to_fork + 1 ]_vars
    /\ [][ (main_pc = "fix_ci_failure" /\ fix_success' = "True")
             => called'.push_to_fork = called.push_to_fork + 1 ]_vars

\* Five polls failed; two of the five fix loops succeeded and were pushed; the
\* last one failed; the monitor has left its loop at the ceiling.
C14_Witness ==
    /\ main_pc = "summary"
    /\ ci_fix_attempts = 5
    /\ called.fix_ci_failure = 5
    /\ called.push_to_fork = 3
    /\ fix_success = "False"
    /\ ClassifiedFailed(status)

(***************************************************************************)
(* C15.  get_pr_status gives all_passed false whenever a check is queued,  *)
(* pending or in progress; one check in progress and one completed with    *)
(* conclusion success give pending true, all_passed false, any_failed      *)
(* false.                                                                  *)
(***************************************************************************)
C15_RunningCheckMeansNotAllPassed ==
    Queried(status)
      => /\ SomeCheckRunning(status) => ~status.all_passed
         /\ status.checks = << [state |-> "in_progress", conclusion |-> "None"],
                               [state |-> "completed", conclusion |-> "success"] >>
              => (status.pending /\ ~status.all_passed /\ ~status.any_failed)

(***************************************************************************)
(* C16.  The monitor leaves its loop as passed only on a poll whose query  *)
(* succeeded, with no check queued, pending or in progress and with every  *)
(* completed check concluded success; never on a poll that holds a check   *)
(* with conclusion failure.                                                *)
(***************************************************************************)
C16_PassedOnlyOnCleanPoll ==
    [][ (PollStep /\ main_pc' = "summary")
          => /\ Queried(status')
             /\ ~SomeCheckRunning(status')
             /\ CompletedAllSucceeded(status')
             /\ ~SomeCheckFailed(status') ]_vars

\* After a fix that was pushed, a poll of two completed, successful checks
\* ended the monitor.
C16_Witness ==
    /\ main_pc = "summary"
    /\ Queried(status)
    /\ Len(status.checks) = 2
    /\ CompletedAllSucceeded(status)
    /\ ~SomeCheckRunning(status)
    /\ fix_success = "True"
    /\ ci_fix_attempts < 5

(***************************************************************************)
(* C17.  The branch is pushed, a pull request created and CI polled only   *)
(* in a session with at least one succeeded task; the pull request is      *)
(* created after the push, and CI is first polled after the pull request   *)
(* was created; with no succeeded task nothing is pushed, created or       *)
(* polled, and main returns after checking out the original branch.        *)
(***************************************************************************)
C17_PullRequestOnlyAfterSuccessAndPush ==
    /\ [](/\ called.push_to_fork > 0 => tasks_succeeded >= 1
          /\ called.create_pull_request > 0
               => (tasks_succeeded >= 1 /\ called.push_to_fork >= 1)
          /\ called.get_pr_status > 0
               => /\ tasks_succeeded >= 1
                  /\ called.create_pull_request = 1
                  /\ pr_success = "True"
          /\ tasks_succeeded = 0
               => /\ called.push_to_fork = 0
                  /\ called.create_pull_request = 0
                  /\ called.get_pr_status = 0
                  /\ main_pc \in {"phase2", "returned"}
                  /\ main_pc = "returned" => called.git_checkout = 1)
    /\ [][ called'.create_pull_request # called.create_pull_request
             => /\ called.push_to_fork = 1
                /\ called.create_pull_request = 0
                /\ called.get_pr_status = 0 ]_vars
    /\ [][ PollStep
             => /\ called.push_to_fork >= 1
                /\ called.create_pull_request = 1
                /\ pr_success = "True" ]_vars

\* A session with a succeeded task: one push, then the pull request, then a
\* first poll.
C17_Witness ==
    /\ tasks_succeeded >= 1
    /\ called.push_to_fork = 1
    /\ called.create_pull_request = 1
    /\ called.get_pr_status = 1
    /\ pr_success = "True"

(***************************************************************************)
(* C18.  process_task and fix_ci_failure are one loop: from the same       *)
(* state, the same tool call with the same outcome of the tool leaves the  *)
(* same BuildState, appends turns of the same kind for the same call, and  *)
(* ends the run by an exception in both or in neither; and a turn that     *)
(* requests no tools has the same consequence in both.                     *)
(***************************************************************************)
SameTurns(a, b) ==
    /\ Len(a) = Len(b)
    /\ \A i \in 1..Len(a) :
          /\ a[i].role = b[i].role
          /\ a[i].tool_call_id = b[i].tool_call_id
          /\ a[i].name = b[i].name

C18_SameLoopPrimitive ==
    /\ pc = "for_tool_call"
         => \A env \in Envs(Head(tool_calls).name) :
               LET p == process_task_tool_call(build_state, Head(tool_calls), env)
                   f == fix_ci_failure_tool_call(build_state, Head(tool_calls), env)
               IN  /\ p.bs = f.bs
                   /\ p.raised = f.raised
                   /\ SameTurns(p.appended, f.appended)
    /\ pc = "while"
         => no_tools_outcome("process_task", build_state)
              = no_tools_outcome("fix_ci_failure", build_state)

(***************************************************************************)
(* C19.  A run_shell that times out gives the loop the timeout message as  *)
(* the tool result of the call and raises nothing; the call does not make  *)
(* build_passed true; and after a timed-out build- or test-classified      *)
(* command the build is not verified.                                      *)
(***************************************************************************)
TimedOut(m) ==
    /\ m.role = "tool" /\ m.name = "run_shell" /\ m.content # << >>
    /\ m.content[1].src = "Error: Command timed out after 600 seconds"

C19_TimeoutTreatedAsFailure ==
    [][ (/\ pc = "for_tool_call"
         /\ Head(tool_calls).name = "run_shell"
         /\ messages' # messages
         /\ TimedOut(Last(messages')))
          => /\ pc' # "raised"
             /\ Last(messages').tool_call_id = Head(tool_calls).id
             /\ ~build_state.build_passed => ~build_state'.build_passed
             /\ Classified(Head(tool_calls).command)
                  => ~(build_state'.build_attempted /\ build_state'.build_passed) ]_vars

(***************************************************************************)
(* C20.  A tool result of more than 10000 characters is appended as its    *)
(* first 5000 characters, the marker and its last 5000 characters (10023   *)
(* characters, less than 10100, for one of 12000); a result of at most     *)
(* 10000 characters is appended unchanged; no appended result is longer    *)
(* than 10100 characters.                                                  *)
(***************************************************************************)
\* The i-th character of a text: the string it comes from and its place there.
RECURSIVE CharAt(_, _)
CharAt(t, i) ==
    IF i <= SegLen(Head(t))
    THEN [src |-> Head(t).src, at |-> Head(t).lo + i - 1]
    ELSE CharAt(Tail(t), i - SegLen(Head(t)))

C20_LongResultsTruncated ==
    pc = "while"
      => LET raw == function_response
             n == TextLen(raw)
             kept == Last(messages).content
         IN  /\ Last(messages).role = "tool"
             /\ n <= 10000 => kept = raw
             /\ n > 10000
                  => /\ TextLen(kept) = 5000 + 23 + 5000
                     /\ \A i \in {1, 2, 33, 34, 4999, 5000} :
                           CharAt(kept, i) = CharAt(raw, i)
                     /\ CharAt(kept, 5001) = [src |-> "\n\n... [truncated] ...\n\n", at |-> 1]
                     /\ CharAt(kept, 5023) = [src |-> "\n\n... [truncated] ...\n\n", at |-> 23]
                     /\ \A i \in {1, 2, 4999, 5000} :
                           CharAt(kept, 5023 + i) = CharAt(raw, n - 5000 + i)
             /\ n = 12000 => TextLen(kept) < 10100
             /\ TextLen(kept) <= 10100

\* An output of 12000 characters appended as 10023.
C20_Witness ==
    /\ pc = "while"
    /\ function_response = Lit("stdout+stderr", 12000)
    /\ TextLen(Last(messages).content) = 10023
    /\ Last(messages).content[1] = [src |-> "stdout+stderr", lo |-> 1, hi |-> 5000]
    /\ Last(messages).content[3] = [src |-> "stdout+stderr", lo |-> 7001, hi |-> 12000]

(***************************************************************************)
(* C21.  When call_api_with_retry raises, the run returns False at once:   *)
(* that step appends nothing to the transcript, executes no tool and       *)
(* leaves BuildState as it was; after a run has returned nothing more is   *)
(* requested, executed or appended in it; and main marks the task of a     *)
(* process_task that returned False as failed.                             *)
(***************************************************************************)
\* The step is a call of call_api_with_retry that raised: the iteration
\* counted, and the run returned False.
RemoteFailureStep ==
    /\ pc = "while"
    /\ iteration' = iteration + 1
    /\ result' = "False"

\* The run returned False from a remote call that raised: its last
\* iteration appended no assistant turn.
RemoteFailed ==
    /\ result = "False"
    /\ Cardinality(AssistantTurns(messages)) = iteration - 1

C21_RemoteFailureEndsRun ==
    /\ [][ RemoteFailureStep
             => /\ pc' = "returned"
                /\ messages' = messages
                /\ build_state' = build_state
                /\ tool_calls' = tool_calls ]_vars
    /\ [][ (pc = "returned" \/ pc = "marked")
             => /\ iteration' = iteration
                /\ messages' = messages
                /\ build_state' = build_state
                /\ pc' = "marked"
                /\ result' = result ]_vars
    /\ [][ (pc = "returned" /\ mode = "process_task" /\ RemoteFailed)
             => "[!]" = task_line' ]_vars
    /\ [](RemoteFailed => pc \in {"returned", "marked"})
    /\ []((task_line = "[x]") => ~RemoteFailed)

\* The second remote call of a run raised after the tools of the first turn
\* had run; the task is marked failed.
C21_Witness ==
    /\ pc = "marked"
    /\ task_line = "[!]"
    /\ RemoteFailed
    /\ iteration = 2
    /\ Last(messages).role = "tool"

(***************************************************************************)
(* C22.  Entering process_task or fix_ci_failure resets BuildState before  *)
(* the first remote request, whatever an earlier run left; so a run that   *)
(* returned True, of either function, holds in its own transcript the      *)
(* result of a build- or test-classified command that exited 0, with no    *)
(* successful write and no failed classified command after it.             *)
(***************************************************************************)
C22_ResetAtStartOfEveryRun ==
    /\ [][ pc = "entry" => (build_state' = BuildStateInit /\ iteration' = 0) ]_vars
    /\ [](iteration = 0 /\ pc # "entry" => build_state = BuildStateInit)
    /\ [](result = "True" => VerifiedByTranscript(messages))

\* A CI-fix run that returned True on a build of its own.
C22_Witness ==
    /\ mode = "fix_ci_failure"
    /\ pc = "returned"
    /\ result = "True"
    /\ VerifiedByTranscript(messages)

(***************************************************************************)
(* C23.  The tool calls of a turn are processed one per step in the order  *)
(* requested, the result of each appended with its id before the next is   *)
(* processed, each acting on the BuildState the previous one left: after   *)
(* [build exiting 0, successful write] the build is not verified, after    *)
(* [successful write, build exiting 0] it is.  The transcript only grows   *)
(* at its end.                                                             *)
(***************************************************************************)
ToolResultIds(msgs) == { i \in 1..Len(msgs) : msgs[i].role = "tool" }

C23_ToolCallsInRequestOrder ==
    /\ [][ /\ Len(messages') >= Len(messages)
           /\ SubSeq(messages', 1, Len(messages)) = messages ]_vars
    /\ [][ pc = "for_tool_call"
             => /\ pc' = "raised" \/ tool_calls' = Tail(tool_calls)
                /\ messages' # messages
                     => /\ Len(messages') = Len(messages) + 1
                        /\ Last(messages').role = "tool"
                        /\ Last(messages').tool_call_id = Head(tool_calls).id ]_vars
    /\ [](\A i, j \in ToolResultIds(messages) :
            i < j => messages[i].tool_call_id < messages[j].tool_call_id)
    /\ []((/\ pc = "while"
           /\ Len(messages) >= 3
           /\ messages[Len(messages) - 2].role = "assistant")
            => LET a == messages[Len(messages) - 1]
                   b == messages[Len(messages)]
               IN  /\ (/\ ShellExit0(a)
                       /\ Classified(CommandOf(messages, a.tool_call_id))
                       /\ WriteOk(b))
                         => Unverified
                   /\ (/\ WriteOk(a)
                       /\ ShellExit0(b)
                       /\ Classified(CommandOf(messages, b.tool_call_id)))
                         => ~Unverified)

\* A turn that requested a write and then a build, both successful: verified.
C23_Witness ==
    /\ pc = "while"
    /\ Len(messages) >= 3
    /\ messages[Len(messages) - 2].role = "assistant"
    /\ Len(messages[Len(messages) - 2].tool_calls) = 2
    /\ WriteOk(messages[Len(messages) - 1])
    /\ ShellExit0(Last(messages))
    /\ CommandOf(messages, Last(messages).tool_call_id) = "./gradlew build"
    /\ ~Unverified

(***************************************************************************)
(* C24.  A poll whose query failed, or whose check set has a check queued, *)
(* pending or in progress, changes no monitor state, also when the set     *)
(* holds a check with conclusion failure: the fix-attempt counter is       *)
(* unchanged, no fix loop is started, nothing is pushed, and the monitor   *)
(* is at its loop head again, where the next step is another poll.         *)
(***************************************************************************)
C24_IndeterminatePollChangesNothing ==
    /\ [][ (PollStep /\ (~Queried(status') \/ SomeCheckRunning(status')))
             => /\ ci_fix_attempts' = ci_fix_attempts
                /\ main_pc' = "monitor"
                /\ called'.fix_ci_failure = called.fix_ci_failure
                /\ called'.push_to_fork = called.push_to_fork
                /\ called'.create_pull_request = called.create_pull_request
                /\ fix_success' = fix_success
                /\ pr_success' = pr_success
                /\ tasks_txt' = tasks_txt ]_vars
    /\ [][ (main_pc = "monitor" /\ ci_fix_attempts < 5) => PollStep ]_vars

\* A first poll found one check still running and one failed: the monitor
\* is at its loop head with nothing counted and nothing started.
C24_Witness ==
    /\ main_pc = "monitor"
    /\ called.get_pr_status = 1
    /\ Queried(status)
    /\ SomeCheckRunning(status)
    /\ SomeCheckFailed(status)
    /\ ci_fix_attempts = 0
    /\ called.fix_ci_failure = 0

(***************************************************************************)
(* C27.  The monitor leaves its loop for the summary only in a poll whose  *)
(* completed checks all succeeded with nothing running, or with the        *)
(* fix-attempt counter at the ceiling.  A poll that succeeded with nothing *)
(* running, no check with conclusion failure and a completed check whose   *)
(* conclusion is not success fits no branch: the counter and the rest of   *)
(* the monitor state are unchanged and the monitor is at its loop head,    *)
(* where no step but another poll can follow.                              *)
(***************************************************************************)
UnknownStatus(st) ==
    /\ Queried(st)
    /\ ~SomeCheckRunning(st)
    /\ ~SomeCheckFailed(st)
    /\ \E i \in 1..Len(st.checks) :
         /\ st.checks[i].state = "completed"
         /\ st.checks[i].conclusion \notin {"success", "failure"}

C27_MonitorEndsOnlyOnPassOrCeiling ==
    /\ [][ (main_pc = "monitor" /\ main_pc' = "summary")
             => \/ /\ PollStep
                   /\ Queried(status')
                   /\ ~SomeCheckRunning(status')
                   /\ CompletedAllSucceeded(status')
                \/ /\ ~PollStep
                   /\ ci_fix_attempts >= 5 ]_vars
    /\ [][ (PollStep /\ UnknownStatus(status'))
             => /\ main_pc' = "monitor"
                /\ ci_fix_attempts' = ci_fix_attempts
                /\ ci_fix_attempts' < 5
                /\ called'.fix_ci_failure = called.fix_ci_failure
                /\ called'.push_to_fork = called.push_to_fork
                /\ fix_success' = fix_success ]_vars
    /\ []((main_pc = "monitor" /\ ci_fix_attempts < 5)
            => /\ ~ENABLED MonitorExhausted
               /\ ~ENABLED FixCiFailure
               /\ called.get_pr_status < MaxPolls => ENABLED Poll)

\* Every poll so far, four at least, came back unknown: the monitor is still
\* at its loop head and no fix was attempted.
C27_Witness ==
    /\ main_pc = "monitor"
    /\ UnknownStatus(status)
    /\ called.get_pr_status >= 4
    /\ ci_fix_attempts = 0
    /\ called.fix_ci_failure = 0

(***************************************************************************)
(* C28.  A query that succeeds with an empty check set gives pending       *)
(* false, any_failed false and all_passed true, and the poll that receives *)
(* it leaves the monitor for the summary as passed, whether or not any     *)
(* check ever completed.                                                   *)
(***************************************************************************)
C28_EmptyCheckSetPasses ==
    [][ (PollStep /\ Queried(status') /\ status'.checks = << >>)
          => /\ ~status'.pending
             /\ ~status'.any_failed
             /\ status'.all_passed
             /\ main_pc' = "summary"
             /\ ci_fix_attempts' = ci_fix_attempts ]_vars

\* The first poll returned no check at all; the monitor has left its loop.
C28_Witness ==
    /\ main_pc = "summary"
    /\ called.get_pr_status = 1
    /\ Queried(status)
    /\ status.checks = << >>
    /\ ci_fix_attempts = 0

(***************************************************************************)
(* C25.  Recording an outcome writes back as many lines as were read, in   *)
(* the same order, every line but the selected one exactly as read; the    *)
(* selected line becomes "[x] " on success or "[!] " on failure followed   *)
(* by the line from its first non-blank character to its end, so what      *)
(* trails the text is kept and the blanks that led it are dropped.         *)
(***************************************************************************)
OutcomePrefix ==
    IF success = "True" THEN << "[", "x", "]", " " >> ELSE << "[", "!", "]", " " >>

\* The step writes back the lines read, the selected one replaced by new_line.
WritesBackWith(new_line) ==
    /\ Len(tasks_txt') = Len(lines)
    /\ \A i \in 1..Len(lines) : i # task_index + 1 => tasks_txt'[i] = lines[i]
    /\ tasks_txt'[task_index + 1] = new_line

C25_MarkKeepsLineFromFirstInk ==
    [][ main_pc = "mark"
          => LET l == lines[task_index + 1] IN
             WritesBackWith(OutcomePrefix \o SubSeq(l, FirstInk(l), Len(l))) ]_vars

\* As stated: the marker is put in front of the line as it was read.
C25_MarkPrefixesWholeLine ==
    [][ main_pc = "mark"
          => WritesBackWith(OutcomePrefix \o lines[task_index + 1]) ]_vars

\* The indented task "  e" of a store of several lines has been marked done:
\* its line reads "[x] e" with its line end, the indentation gone.
C25_Witness ==
    /\ main_pc = "while"
    /\ success = "True"
    /\ Len(tasks_txt) >= 2
    /\ task_index >= 1
    /\ tasks_txt[task_index + 1] = << "[", "x", "]", " ", "e", "\n" >>

(***************************************************************************)
(* C26.  The outcome of a task is written back from the lines read before  *)
(* the task ran.  An edit made to tasks.txt while process_task runs is not *)
(* seen by main, and the outcome write replaces the file by the old lines  *)
(* with the marker at the old index: an inserted line is gone, a removed   *)
(* line is back, a re-marked line reads as it did when read, and a line    *)
(* inserted above the task does not move the marker.                       *)
(***************************************************************************)
LinesOf(file) == { file[i] : i \in 1..Len(file) }

\* The edit e leaves no trace in the file written from the snapshot.
EditLost(e, snapshot, index, file) ==
    CASE e.kind = "insert" -> e.line \notin LinesOf(file)
      [] e.kind = "remove" -> Len(file) = Len(snapshot)
      [] OTHER -> \A i \in 1..Len(snapshot) :
                     i # index => file[i] = snapshot[i]

C26_StaleSnapshotOverwritesEdits ==
    /\ [][ edits' # edits /\ edits' # << >>
             => /\ main_pc = "process_task"
                /\ tasks_txt' # tasks_txt
                /\ << main_pc', lines', task_index', current_task' >>
                     = << main_pc, lines, task_index, current_task >> ]_vars
    /\ [][ main_pc = "mark"
             => /\ Len(tasks_txt') = Len(lines)
                /\ \A i \in 1..Len(lines) :
                     i # task_index + 1 => tasks_txt'[i] = lines[i]
                /\ MarkedWith(tasks_txt'[task_index + 1],
                              IF success = "True" THEN "x" ELSE "!")
                /\ Trimmed(SubSeq(tasks_txt'[task_index + 1], 4,
                                  Len(tasks_txt'[task_index + 1])))
                     = Trimmed(lines[task_index + 1])
                /\ \A k \in 1..Len(edits) :
                     EditLost(edits[k], lines, task_index + 1, tasks_txt') ]_vars

\* While the first line's task ran, a task line was inserted above it; the
\* outcome was written: the file is the old lines with the first one marked,
\* as long as before the edit, and the inserted line is not in it.
C26_Witness ==
    /\ main_pc = "while"
    /\ edits = << [kind |-> "insert", at |-> 1, line |-> NewLine] >>
    /\ task_index = 0
    /\ Len(tasks_txt) = Len(lines)
    /\ Len(tasks_txt) >= 2
    /\ NewLine \notin LinesOf(tasks_txt)
    /\ MarkedWith(tasks_txt[1], "x")
    /\ tasks_txt[2] = lines[2]

=============================================================================
